---------------------------- MODULE Spec2Model ----------------------------
(***************************************************************************)
(* Model of the OCM-2 band processing pipeline (src/ocm2/ocm2.py).         *)
(*                                                                         *)
(* A raster is modelled by one pixel (every operation of the pipeline is   *)
(* element-wise), its profile and the writer that produced it.  Real       *)
(* numbers are fixed-point integers in thousandths ("milli"); a float that *)
(* can be not-a-number or infinite is a record with a kind.  File names    *)
(* are sequences of one-character strings, so that formatting and parsing  *)
(* of band numbers are computed, not assumed.                              *)
(***************************************************************************)
EXTENDS Integers, Sequences, FiniteSets, TLC

VARIABLES
    scene,      \* the input: the HDF container and how run_ocm2 is entered
    fs,         \* the three folders under `path`
    pc,         \* position in run_ocm2
    idx,        \* ExportSubdatasets' loop index i
    todo,       \* entries of the current directory listing not yet iterated
    grids,      \* cloudmask_ocm: the grids read from filelist, in its order
    derived,    \* cloudmask_ocm: toa_sum, toa_diff, toa_ratio, cldmsk locals
    started,    \* stages that have begun in this run
    completed,  \* stages that have returned normally in this run
    failure,    \* the exception that ended this run, if any
    run,        \* 1 for the first invocation, 2 for the second
    pre,        \* the folders as they were when this run was invoked
    snapshot    \* the folders as the first invocation left them

vars == <<scene, fs, pc, idx, todo, grids, derived, started, completed,
          failure, run, pre, snapshot>>

-----------------------------------------------------------------------------
(* Bounds *)

\* Largest number of subdatasets a container holds (band0 .. band{MaxSub-1}).
MaxSub == 9

-----------------------------------------------------------------------------
(* File names: 'band{0}.TIF'.format(i), 'cloud_mask.TIF', '<stem>_georef.TIF' *)

DigitChars == <<"0", "1", "2", "3", "4", "5", "6", "7", "8", "9">>

IsDigit(c) == \E k \in 1..Len(DigitChars) : DigitChars[k] = c

DigitValue(c) == (CHOOSE k \in 1..Len(DigitChars) : DigitChars[k] = c) - 1

RECURSIVE Decimal(_)
\* str(i) for i >= 0
Decimal(n) ==
    IF n < 10 THEN <<DigitChars[n + 1]>>
    ELSE Decimal(n \div 10) \o <<DigitChars[(n % 10) + 1]>>

RECURSIVE ToInt(_)
\* int(s) for a string of digits; -1 stands for the ValueError of int('')
ToInt(s) ==
    IF Len(s) = 0 THEN -1
    ELSE IF Len(s) = 1 THEN DigitValue(s[1])
    ELSE ToInt(SubSeq(s, 1, Len(s) - 1)) * 10 + DigitValue(s[Len(s)])

\* s.split(sep)[0]
SplitFirst(s, sep) ==
    LET hits == {k \in 1..Len(s) : s[k] = sep}
    IN  IF hits = {} THEN s
        ELSE SubSeq(s, 1, (CHOOSE k \in hits : \A j \in hits : k <= j) - 1)

ExtTIF == <<".", "T", "I", "F">>

BandTif(i) == <<"b", "a", "n", "d">> \o Decimal(i) \o ExtTIF

CloudMaskTif == <<"c", "l", "o", "u", "d", "_", "m", "a", "s", "k">> \o ExtTIF

GeorefSuffix == <<"_", "g", "e", "o", "r", "e", "f">> \o ExtTIF

\* os.path.basename(gtif).split('.')[0] + '_georef.TIF'
GeorefName(gtif) == SplitFirst(gtif, ".") \o GeorefSuffix

\* int(''.join(list(filter(str.isdigit, name.split('.')[0].split('_')[0]))))
BandNo(name) ==
    ToInt(SelectSeq(SplitFirst(SplitFirst(name, "."), "_"), IsDigit))

\* x.endswith(("TIF", "tif", "img"))
RasterExts == {<<"T", "I", "F">>, <<"t", "i", "f">>, <<"i", "m", "g">>}

EndsWithTifOnlyBands(name) ==
    /\ Len(name) >= 3
    /\ SubSeq(name, Len(name) - 2, Len(name)) \in RasterExts
    /\ SelectSeq(name, IsDigit) # <<>>

EndsWithTif(name) ==
    /\ Len(name) >= 3
    /\ SubSeq(name, Len(name) - 2, Len(name)) \in RasterExts

-----------------------------------------------------------------------------
(* Directory listings *)

Alphabet == DigitChars \o
    <<".", "F", "I", "T", "_", "a", "b", "c", "d", "e", "f", "g", "k", "l",
      "m", "n", "o", "r", "s", "t", "u">>

Code(c) == CHOOSE k \in 1..Len(Alphabet) : Alphabet[k] = c

RECURSIVE LexLess(_, _)
LexLess(s, t) ==
    IF Len(t) = 0 THEN FALSE
    ELSE IF Len(s) = 0 THEN TRUE
    ELSE IF Code(s[1]) # Code(t[1]) THEN Code(s[1]) < Code(t[1])
    ELSE LexLess(Tail(s), Tail(t))

RECURSIVE Sorted(_)
Sorted(S) ==
    IF S = {} THEN <<>>
    ELSE LET m == CHOOSE x \in S : \A y \in S \ {x} : LexLess(x, y)
         IN  <<m>> \o Sorted(S \ {m})

\* os.listdir(folder): the entries in an order the file system chooses.  The
\* orders kept are those that put any entries at the positions the cloud-mask
\* stage reads individually (first, second, seventh) and list the rest in
\* name order.
ListDir(folder) ==
    LET S == DOMAIN folder.files
        n == Cardinality(S)
        inOrder == Sorted(S)
        Rest(picked) == SelectSeq(inOrder, LAMBDA x : x \notin picked)
    IN  IF n < 2 THEN {inOrder}
        ELSE IF n < 7 THEN
            {<<p[1], p[2]>> \o Rest({p[1], p[2]}) :
             p \in {q \in S \X S : q[1] # q[2]}}
        ELSE
            {LET r == Rest({p[1], p[2], p[3]})
             IN  <<p[1], p[2]>> \o SubSeq(r, 1, 4) \o <<p[3]>>
                    \o SubSeq(r, 5, Len(r)) :
             p \in {q \in S \X S \X S :
                        q[1] # q[2] /\ q[1] # q[3] /\ q[2] # q[3]}}

-----------------------------------------------------------------------------
(* Radiometric Converter: calc_toa, toa_convert *)

\* pi in thousandths (np.pi)
PiMilli == 3142

\* esol, in thousandths
Esol == <<1728, 1852, 1972, 1867, 1828, 1658, 1290, 952>>

\* Python list indexing: lst[i], a negative i counting from the end
PyIndex(lst, i) == IF i >= 0 THEN lst[i + 1] ELSE lst[Len(lst) + i + 1]

\* math.sin(math.radians(sun_elev)) in thousandths, for the elevations used
SinMilli(sun_elev) == CASE sun_elev = 90 -> 1000 [] sun_elev = 30 -> 500

\* (np.pi * 1 * rad * 10) / (E * 1000 * sin(sun_elev)) in thousandths, E being
\* the table entry at Python index k
ToaAt(rad, sun_elev, k) ==
    (PiMilli * 1 * rad * 10 * 1000)
        \div ((PyIndex(Esol, k) * 1000 * SinMilli(sun_elev)) \div 1000)

calc_toa_prev(rad, sun_elev, band_no) == ToaAt(rad, sun_elev, band_no - 1)

calc_toa(rad, sun_elev, band_no) == ToaAt(rad, sun_elev, band_no)

\* toa[toa < 0] = 0.0 ; toa[toa > 2] = 0.0
Clamp(toa) == IF toa < 0 THEN 0 ELSE IF toa > 2000 THEN 0 ELSE toa

\* The raster toa_convert writes for inp_name: the input's profile, new pixels
toa_convert(file, inp_name, sun_elev) ==
    [px   |-> Clamp(calc_toa(file.px, sun_elev, BandNo(inp_name))),
     prof |-> file.prof,
     kind |-> "toa",
     gcp  |-> FALSE]

-----------------------------------------------------------------------------
(* Cloud Mask Engine: sum_toa, toa_other, cloudmask_ocm *)

NaN == [kind |-> "nan", num |-> 0, den |-> 1]

Fin(n, d) == [kind |-> "fin", num |-> n, den |-> d]

Inf(sign) == [kind |-> "inf", num |-> sign, den |-> 1]

KeepZero(x) == Fin(x, 1)

\* band[band == 0.0] = np.nan
ZeroToNan(x) == IF x = 0 THEN NaN ELSE Fin(x, 1)

\* a - b on floats whose denominators are 1
FSub(a, b) ==
    IF a.kind = "nan" \/ b.kind = "nan" THEN NaN
    ELSE Fin(a.num - b.num, 1)

\* a / b on floats whose denominators are 1 (numpy: x/0 is inf, 0/0 is nan)
FDiv(a, b) ==
    IF a.kind = "nan" \/ b.kind = "nan" THEN NaN
    ELSE IF b.num = 0 THEN
        (IF a.num = 0 THEN NaN ELSE Inf(IF a.num > 0 THEN 1 ELSE -1))
    ELSE IF b.num > 0 THEN Fin(a.num, b.num)
    ELSE Fin(-a.num, -b.num)

\* a > n/d and a < n/d (d > 0); every comparison with nan is False
FGreater(a, n, d) ==
    CASE a.kind = "nan" -> FALSE
      [] a.kind = "inf" -> a.num > 0
      [] a.kind = "fin" -> a.num * d > n * a.den

FLess(a, n, d) ==
    CASE a.kind = "nan" -> FALSE
      [] a.kind = "inf" -> a.num < 0
      [] a.kind = "fin" -> a.num * d < n * a.den

RECURSIVE SumFrom(_, _, _)
\* the loop of sum_toa over filelist[k:], arr being the sum so far
SumFrom(g, k, arr) ==
    IF k > Len(g) THEN [ok |-> TRUE, arr |-> arr]
    ELSE IF g[k].prof # g[1].prof THEN [ok |-> FALSE, arr |-> arr]
    ELSE SumFrom(g, k + 1, arr + g[k].px)

sum_toa_skip_first(g) == SumFrom(g, 2, 0)

\* sum_toa(filelist): arr of filelist[0], then + every f in filelist[1:], the
\* profiles asserted equal
sum_toa(g) == SumFrom(g, 2, g[1].px)

toa_other_short(g) ==
    IF Len(g) < 6 THEN [ok |-> FALSE, diff |-> NaN, ratio |-> NaN, prof |-> 0]
    ELSE LET band1 == Fin(g[1].px, 1)
             band2 == ZeroToNan(g[2].px)
             band7 == ZeroToNan(g[6].px)
         IN  [ok    |-> TRUE,
              diff  |-> FSub(band2, band1),
              ratio |-> FDiv(band2, band7),
              prof  |-> g[1].prof]

\* toa_other(filelist): one, two, seven = filelist[0], filelist[1],
\* filelist[6]; an IndexError when the list is shorter
toa_other(g) ==
    IF Len(g) < 7 THEN [ok |-> FALSE, diff |-> NaN, ratio |-> NaN, prof |-> 0]
    ELSE LET band1 == Fin(g[1].px, 1)
             band2 == ZeroToNan(g[2].px)
             band7 == ZeroToNan(g[7].px)
         IN  [ok    |-> TRUE,
              diff  |-> FSub(band2, band1),
              ratio |-> FDiv(band2, band7),
              prof  |-> g[1].prof]

\* np.where((toa_sum > 2.7) & (toa_ratio > 1.5) & (toa_diff < 0), 1, 0)
Decide(toa_sum, toa_ratio, toa_diff) ==
    IF toa_sum > 2700 /\ FGreater(toa_ratio, 1500, 1000) /\ FLess(toa_diff, 0, 1)
    THEN 1 ELSE 0

NoDerived ==
    [ok |-> FALSE, err |-> "none", sum |-> 0, diff |-> NaN, ratio |-> NaN,
     cldmsk |-> 0, prof |-> 0]

\* cloudmask_ocm up to the np.where: the locals it holds before it writes
cloudmask_ocm(g) ==
    LET s == sum_toa(g)
        o == toa_other(g)
    IN  IF ~s.ok THEN [NoDerived EXCEPT !.err = "AssertionError"]
        ELSE IF ~o.ok THEN [NoDerived EXCEPT !.err = "IndexError"]
        ELSE [ok |-> TRUE, err |-> "none", sum |-> s.arr, diff |-> o.diff,
              ratio |-> o.ratio, cldmsk |-> Decide(s.arr, o.ratio, o.diff),
              prof |-> o.prof]

-----------------------------------------------------------------------------
(* Scenes: the HDF container run_ocm2 is given *)

DataSets == {"cloudy", "clear", "glint", "ragged"}

\* The radiance of subdataset i (one pixel)
Rad(data, i) ==
    CASE data = "cloudy" -> (IF i = 0 THEN 60 ELSE IF i = 1 THEN 50
                             ELSE IF i = 6 THEN 10 ELSE 20)
      [] data = "clear"  -> (IF i = 1 THEN 0 ELSE 20)
      [] data = "glint"  -> (IF i = 0 THEN 60 ELSE IF i = 1 THEN -5 ELSE 10)
      [] data = "ragged" -> 20

\* meta['Sun Elevation Angle']
SunElev(data) == IF data = "glint" THEN 30 ELSE 90

\* The raster size and transform of subdataset i, as one profile number
Prof(data, i) == IF data = "ragged" /\ i = 2 THEN 2 ELSE 1

Entries == {"run_ocm2", "ExportSubdatasets"}

Scenes ==
    [entry : Entries, opens : {FALSE}, metaOK : {FALSE}, nsub : {0},
     badSub : {-1}, data : {"clear"}]
    \cup
    [entry : {"run_ocm2"}, opens : {TRUE}, metaOK : {FALSE}, nsub : {MaxSub},
     badSub : {-1}, data : {"clear"}]
    \cup
    {sc \in [entry : Entries, opens : {TRUE}, metaOK : {TRUE},
             nsub : 0..MaxSub, badSub : -1..(MaxSub - 1), data : DataSets] :
        sc.badSub < sc.nsub}

-----------------------------------------------------------------------------
(* Folders *)

Absent == [exists |-> FALSE, files |-> <<>>]

Empty == [exists |-> TRUE, files |-> <<>>]

StaleFile == [px |-> 7, prof |-> 9, kind |-> "stale", gcp |-> FALSE]

FolderNames == {"GeoTiff", "Reflectance", "Georeferenced"}

\* What a folder may hold from earlier work when run_ocm2 is invoked
Stale(f) ==
    CASE f = "GeoTiff"       -> [exists |-> TRUE,
                                 files |-> (BandTif(0) :> StaleFile)]
      [] f = "Reflectance"   -> [exists |-> TRUE,
                                 files |-> (CloudMaskTif :> StaleFile)]
      [] f = "Georeferenced" -> [exists |-> TRUE,
                                 files |-> (GeorefName(BandTif(0)) :> StaleFile)]

Names(folder) == DOMAIN folder.files

PutFile(folder, name, file) ==
    [folder EXCEPT !.files = (name :> file) @@ folder.files]

KeepOrCreate(folder) == IF folder.exists THEN folder ELSE Empty

\* if os.path.exists(d): shutil.rmtree(d) ; os.makedirs(d)
Recreate(folder) == Empty

\* if os.path.exists(d): shutil.rmtree(d)
Remove(folder) == Absent

\* shutil.copy(inp_file, out_file) then ds.SetGCPs(gcps, sr.ExportToWkt())
Georeference(file) == [file EXCEPT !.gcp = TRUE]

-----------------------------------------------------------------------------
(* run_ocm2 *)

NoFailure == [stage |-> "none", err |-> "none"]

Swallow(ok, next) == next

\* An exception is caught nowhere: it ends run_ocm2 where it is raised
Propagate(ok, next) == IF ok THEN next ELSE "failed"

Raise(stage, err, next) ==
    /\ failure' = [stage |-> stage, err |-> err]
    /\ pc' = Propagate(FALSE, next)

Continue(next) ==
    /\ failure' = failure
    /\ pc' = Propagate(TRUE, next)

Init ==
    /\ scene \in Scenes
    /\ fs \in {[f \in FolderNames |-> Absent], [f \in FolderNames |-> Stale(f)]}
    /\ pc = IF scene.entry = "run_ocm2" THEN "metaInfo" ELSE "ExportSubdatasets"
    /\ idx = 0
    /\ todo = {}
    /\ grids = <<>>
    /\ derived = NoDerived
    /\ started = {}
    /\ completed = {}
    /\ failure = NoFailure
    /\ run = 1
    /\ pre = fs
    /\ snapshot = fs

\* meta = metaInfo(path, hdf_file)
MetaInfo ==
    /\ pc = "metaInfo"
    /\ started' = started \cup {"Meta"}
    /\ IF ~scene.opens
       THEN Raise("Meta", "AttributeError", "ExportSubdatasets")
            /\ completed' = completed
       ELSE IF ~scene.metaOK
       THEN Raise("Meta", "KeyError", "ExportSubdatasets")
            /\ completed' = completed
       ELSE Continue("ExportSubdatasets")
            /\ completed' = completed \cup {"Meta"}
    /\ UNCHANGED <<scene, fs, idx, todo, grids, derived, run, pre, snapshot>>

\* ExportSubdatasets up to its loop: the GeoTiff folder, gdal.Open, GetSubDatasets
ExportStart ==
    /\ pc = "ExportSubdatasets"
    /\ started' = started \cup {"Extracted"}
    /\ fs' = [fs EXCEPT !.GeoTiff = Recreate(fs.GeoTiff)]
    /\ idx' = 0
    /\ IF ~scene.opens
       THEN Raise("Extracted", "AttributeError", "export_loop")
       ELSE Continue("export_loop")
    /\ UNCHANGED <<scene, todo, grids, derived, completed, run, pre, snapshot>>

\* One iteration of ExportSubdatasets' loop: subdataset i to band{i}.TIF
ExportBand ==
    /\ pc = "export_loop"
    /\ idx < scene.nsub
    /\ IF idx = scene.badSub
       THEN Raise("Extracted", "AttributeError", "export_loop")
            /\ UNCHANGED <<fs, idx>>
       ELSE /\ Continue("export_loop")
            /\ fs' = [fs EXCEPT !.GeoTiff =
                        PutFile(@, BandTif(idx),
                                [px |-> Rad(scene.data, idx),
                                 prof |-> Prof(scene.data, idx),
                                 kind |-> "export", gcp |-> FALSE])]
            /\ idx' = idx + 1
    /\ UNCHANGED <<scene, todo, grids, derived, started, completed, run, pre,
                   snapshot>>

\* return opf_tif
ExportReturn ==
    /\ pc = "export_loop"
    /\ idx >= scene.nsub
    /\ completed' = completed \cup {"Extracted"}
    /\ Continue(IF scene.entry = "run_ocm2" THEN "makedirs" ELSE "done")
    /\ UNCHANGED <<scene, fs, idx, todo, grids, derived, started, run, pre,
                   snapshot>>

\* run_ocm2: the Reflectance and the Georeferenced folder, cleared and made
MakeFolders ==
    /\ pc = "makedirs"
    /\ fs' = [fs EXCEPT !.Reflectance = Recreate(fs.Reflectance),
                        !.Georeferenced = Recreate(fs.Georeferenced)]
    /\ Continue("do_ref")
    /\ UNCHANGED <<scene, idx, todo, grids, derived, started, completed, run,
                   pre, snapshot>>

\* do_ref: the listing of the GeoTiff folder
DoRefList ==
    /\ pc = "do_ref"
    /\ started' = started \cup {"Converted"}
    /\ todo' = {n \in Names(fs.GeoTiff) : EndsWithTif(n)}
    /\ Continue("ref_loop")
    /\ UNCHANGED <<scene, fs, idx, grids, derived, completed, run, pre,
                   snapshot>>

\* One iteration of do_ref's loop, on the next entry of the listing
DoRefBand ==
    /\ pc = "ref_loop"
    /\ \E band_name \in todo :
        /\ todo' = todo \ {band_name}
        /\ IF BandNo(band_name) = -1
           THEN Raise("Converted", "ValueError", "ref_loop") /\ fs' = fs
           ELSE /\ Continue("ref_loop")
                /\ fs' = [fs EXCEPT !.Reflectance =
                     IF BandNo(band_name) <= 7
                     THEN PutFile(@, SplitFirst(band_name, ".") \o ExtTIF,
                                  toa_convert(fs.GeoTiff.files[band_name],
                                              band_name, SunElev(scene.data)))
                     ELSE PutFile(@, band_name, fs.GeoTiff.files[band_name])]
    /\ UNCHANGED <<scene, idx, grids, derived, started, completed, run, pre,
                   snapshot>>

\* do_ref returns
DoRefReturn ==
    /\ pc = "ref_loop"
    /\ todo = {}
    /\ completed' = completed \cup {"Converted"}
    /\ Continue("do_cldmsk")
    /\ UNCHANGED <<scene, fs, idx, todo, grids, derived, started, run, pre,
                   snapshot>>

\* filelist after do_cldmsk's loop over the listing `original`, number[n]
\* being the band number parsed from the name n
FileList(original, number) ==
    SelectSeq(original, LAMBDA n : EndsWithTif(n) /\ number[n] <= 7)

\* do_cldmsk, and cloudmask_ocm up to the np.where.  The band numbers are
\* parsed from the names once, for every listing order.
DoCldmsk ==
    /\ pc = "do_cldmsk"
    /\ started' = started \cup {"CloudMasked"}
    /\ \E number \in {[n \in Names(fs.Reflectance) |-> BandNo(n)]} :
           \E original \in ListDir(fs.Reflectance) :
            LET gtif == SelectSeq(original, EndsWithTif)
                filelist == FileList(original, number)
                g == [k \in 1..Len(filelist) |->
                        [px |-> fs.Reflectance.files[filelist[k]].px,
                         prof |-> fs.Reflectance.files[filelist[k]].prof]]
                locals == cloudmask_ocm(g)
            IN  IF \E k \in 1..Len(gtif) : number[gtif[k]] = -1
                THEN Raise("CloudMasked", "ValueError", "mask_write")
                     /\ UNCHANGED <<grids, derived>>
                ELSE IF filelist = <<>>
                THEN Raise("CloudMasked", "UnboundLocalError", "mask_write")
                     /\ UNCHANGED <<grids, derived>>
                ELSE IF ~locals.ok
                THEN Raise("CloudMasked", locals.err, "mask_write")
                     /\ UNCHANGED <<grids, derived>>
                ELSE /\ Continue("mask_write")
                     /\ grids' = g
                     /\ derived' = locals
    /\ UNCHANGED <<scene, fs, idx, todo, completed, run, pre, snapshot>>

\* cloudmask_ocm writes cloud_mask.TIF into inpf and returns; do_cldmsk returns
MaskWrite ==
    /\ pc = "mask_write"
    /\ fs' = [fs EXCEPT !.Reflectance =
                PutFile(@, CloudMaskTif,
                        [px |-> derived.cldmsk, prof |-> derived.prof,
                         kind |-> "mask", gcp |-> FALSE])]
    /\ grids' = <<>>
    /\ derived' = NoDerived
    /\ completed' = completed \cup {"CloudMasked"}
    /\ Continue("do_georef")
    /\ UNCHANGED <<scene, idx, todo, started, run, pre, snapshot>>

\* do_georef: the listing of the Reflectance folder
DoGeorefList ==
    /\ pc = "do_georef"
    /\ started' = started \cup {"Georeferenced"}
    /\ todo' = {n \in Names(fs.Reflectance) : EndsWithTif(n)}
    /\ Continue("georef_loop")
    /\ UNCHANGED <<scene, fs, idx, grids, derived, completed, run, pre,
                   snapshot>>

\* One iteration of do_georef's loop: Georeference(opf_ref, band_name, ...)
DoGeorefFile ==
    /\ pc = "georef_loop"
    /\ \E band_name \in todo :
        /\ todo' = todo \ {band_name}
        /\ fs' = [fs EXCEPT !.Georeferenced =
                    PutFile(@, GeorefName(band_name),
                            Georeference(fs.Reflectance.files[band_name]))]
    /\ Continue("georef_loop")
    /\ UNCHANGED <<scene, idx, grids, derived, started, completed, run, pre,
                   snapshot>>

\* do_georef returns
DoGeorefReturn ==
    /\ pc = "georef_loop"
    /\ todo = {}
    /\ completed' = completed \cup {"Georeferenced"}
    /\ Continue("cleanup")
    /\ UNCHANGED <<scene, fs, idx, todo, grids, derived, started, run, pre,
                   snapshot>>

\* run_ocm2 removes the GeoTiff and the Reflectance folder and returns
Cleanup ==
    /\ pc = "cleanup"
    /\ started' = started \cup {"Cleaned"}
    /\ completed' = completed \cup {"Cleaned"}
    /\ fs' = [fs EXCEPT !.GeoTiff = Remove(fs.GeoTiff),
                        !.Reflectance = Remove(fs.Reflectance)]
    /\ Continue("done")
    /\ UNCHANGED <<scene, idx, todo, grids, derived, run, pre, snapshot>>

\* run_ocm2 is invoked a second time on the same scene and folder
Rerun ==
    /\ pc \in {"done", "failed"}
    /\ run = 1
    /\ scene.entry = "run_ocm2"
    /\ run' = 2
    /\ snapshot' = fs
    /\ pre' = fs
    /\ pc' = "metaInfo"
    /\ idx' = 0
    /\ todo' = {}
    /\ grids' = <<>>
    /\ derived' = NoDerived
    /\ started' = {}
    /\ completed' = {}
    /\ failure' = NoFailure
    /\ UNCHANGED <<scene, fs>>

Next ==
    \/ MetaInfo
    \/ ExportStart
    \/ ExportBand
    \/ ExportReturn
    \/ MakeFolders
    \/ DoRefList
    \/ DoRefBand
    \/ DoRefReturn
    \/ DoCldmsk
    \/ MaskWrite
    \/ DoGeorefList
    \/ DoGeorefFile
    \/ DoGeorefReturn
    \/ Cleanup
    \/ Rerun

Spec == Init /\ [][Next]_vars

-----------------------------------------------------------------------------
(* cloudmask_ocm as a function of the grids it is given *)

PixelLevels == {0, 400, 700, 1900}

GridCounts == {7, 8}

InitMask ==
    /\ scene \in {sc \in Scenes : sc.entry = "run_ocm2" /\ sc.opens
                    /\ sc.metaOK /\ sc.nsub = 0 /\ sc.data = "clear"}
    /\ fs = [f \in FolderNames |-> Empty]
    /\ pc = "cloudmask_ocm"
    /\ idx = 0
    /\ todo = {}
    /\ grids \in UNION {[1..n -> [px : PixelLevels, prof : {1}]] : n \in GridCounts}
    /\ derived = NoDerived
    /\ started = {}
    /\ completed = {}
    /\ failure = NoFailure
    /\ run = 1
    /\ pre = fs
    /\ snapshot = fs

\* cloudmask_ocm(inpf, filelist) on the grids of filelist
ApplyCloudMask ==
    /\ pc = "cloudmask_ocm"
    /\ derived' = cloudmask_ocm(grids)
    /\ pc' = "masked"
    /\ UNCHANGED <<scene, fs, idx, todo, grids, started, completed, failure,
                   run, pre, snapshot>>

NextMask == ApplyCloudMask

SpecMask == InitMask /\ [][NextMask]_vars

-----------------------------------------------------------------------------
(* Vocabulary of the properties *)

StageOrder == <<"Extracted", "Converted", "CloudMasked", "Georeferenced",
                "Cleaned">>

\* Position of a stage in the pipeline; the metadata step comes before all
Rank(stage) ==
    IF stage = "Meta" THEN 0
    ELSE CHOOSE k \in 1..Len(StageOrder) : StageOrder[k] = stage

Running(stage) == stage \in started /\ stage \notin completed

BandNames == {BandTif(i) : i \in 0..(scene.nsub - 1)}

ExportedBand(i) ==
    [px |-> Rad(scene.data, i), prof |-> Prof(scene.data, i),
     kind |-> "export", gcp |-> FALSE]

\* The outputs a stage leaves when it has completed
OutputsInFull(stage) ==
    CASE stage = "Extracted" ->
            /\ fs.GeoTiff.exists
            /\ Names(fs.GeoTiff) = BandNames
            /\ \A i \in 0..(scene.nsub - 1) :
                    fs.GeoTiff.files[BandTif(i)] = ExportedBand(i)
      [] stage = "Converted" ->
            /\ BandNames \subseteq Names(fs.Reflectance)
            /\ \A n \in BandNames :
                    fs.Reflectance.files[n].kind \in {"toa", "export"}
      [] stage = "CloudMasked" ->
            /\ CloudMaskTif \in Names(fs.Reflectance)
            /\ fs.Reflectance.files[CloudMaskTif].kind = "mask"
      [] stage = "Georeferenced" ->
            Names(fs.Georeferenced) =
                {GeorefName(n) : n \in BandNames \cup {CloudMaskTif}}

RECURSIVE SumPx(_, _)
\* The sum of the pixels of the files named in S
SumPx(folder, S) ==
    IF S = {} THEN 0
    ELSE LET n == CHOOSE x \in S : TRUE
         IN  folder.files[n].px + SumPx(folder, S \ {n})

\* The files of a folder that do_cldmsk's filter keeps
Eligible(folder) ==
    {n \in Names(folder) : EndsWithTif(n) /\ BandNo(n) >= 0 /\ BandNo(n) <= 7}

FolderStage(f) ==
    CASE f = "GeoTiff" -> "Extracted"
      [] f = "Reflectance" -> "Converted"
      [] f = "Georeferenced" -> "Georeferenced"

-----------------------------------------------------------------------------
(* C1 *)

\* C1: in every execution of run_ocm2 the stages run in the order Extracted,
\* Converted, CloudMasked, Georeferenced, Cleaned: a stage has started only if
\* its predecessor has completed, the predecessor's outputs exist in full
\* while the stage runs or lies failed, and once a stage has failed no later
\* stage (the cleanup included) has started.
C1_StagesStrictlySequential ==
    scene.entry = "run_ocm2" =>
        /\ \A k \in 2..Len(StageOrder) :
                StageOrder[k] \in started => StageOrder[k - 1] \in completed
        /\ \A k \in 2..Len(StageOrder) :
                Running(StageOrder[k]) => OutputsInFull(StageOrder[k - 1])
        /\ "Cleaned" \in completed => OutputsInFull("Georeferenced")
        /\ completed \subseteq started
        /\ failure.stage # "none" =>
                /\ pc = "failed"
                /\ failure.stage \notin completed
                /\ \A s \in started : Rank(s) <= Rank(failure.stage)

\* C1 witness: the cloud-mask stage failed after extraction and conversion
\* completed, and nothing later has started
C1_Witness ==
    /\ scene.entry = "run_ocm2"
    /\ pc = "failed"
    /\ failure.stage = "CloudMasked"
    /\ {"Extracted", "Converted"} \subseteq completed
    /\ started \cap {"Georeferenced", "Cleaned"} = {}

-----------------------------------------------------------------------------
(* C2 *)

\* C2 as stated: a converted band{i}, i <= 7, holds the reflectance computed
\* with the solar-irradiance entry at table index i - 1, and a band{i} with
\* i > 7 is copied through unchanged.
C2_EsolIndexedByBandMinusOne ==
    "Converted" \in started =>
        \A i \in 0..(scene.nsub - 1) :
            BandTif(i) \in Names(fs.Reflectance) =>
                LET f == fs.Reflectance.files[BandTif(i)]
                IN  IF i <= 7
                    THEN f.px = Clamp(ToaAt(Rad(scene.data, i),
                                            SunElev(scene.data), i - 1))
                    ELSE f = ExportedBand(i)

\* C2 amended: a converted band{i}, i <= 7, holds the clamped reflectance
\* computed with the solar-irradiance entry at table index i (the file
\* numbers start at 0, so band0 uses the first entry), with the profile of
\* its input; a band{i} with i > 7 is copied through unchanged.
C2_EsolIndexedByFileNumber ==
    "Converted" \in started =>
        \A i \in 0..(scene.nsub - 1) :
            BandTif(i) \in Names(fs.Reflectance) =>
                LET f == fs.Reflectance.files[BandTif(i)]
                IN  IF i <= 7
                    THEN /\ f.kind = "toa"
                         /\ f.prof = Prof(scene.data, i)
                         /\ f.px = Clamp(ToaAt(Rad(scene.data, i),
                                               SunElev(scene.data), i))
                    ELSE f = ExportedBand(i)

\* C2 witness: conversion has completed on a scene with converted bands and a
\* band above 7 that was copied through
C2_Witness ==
    /\ pc = "do_cldmsk"
    /\ scene.data = "cloudy"
    /\ BandTif(0) \in Names(fs.Reflectance)
    /\ fs.Reflectance.files[BandTif(0)].kind = "toa"
    /\ BandTif(8) \in Names(fs.Reflectance)
    /\ fs.Reflectance.files[BandTif(8)].kind = "export"

-----------------------------------------------------------------------------
(* C3 *)

\* C3: whatever the order of the directory listing, the cloud-mask stage
\* takes its operands by band: difference = band 2 - band 1 and ratio =
\* band 2 / band 7, the first, second and seventh band of the scene (files
\* band0, band1, band6).
C3_OperandsKeyedByBand ==
    pc = "mask_write" =>
        LET one    == fs.Reflectance.files[BandTif(0)].px
            two    == fs.Reflectance.files[BandTif(1)].px
            seven  == fs.Reflectance.files[BandTif(6)].px
        IN  /\ derived.diff = FSub(ZeroToNan(two), Fin(one, 1))
            /\ derived.ratio = FDiv(ZeroToNan(two), ZeroToNan(seven))

-----------------------------------------------------------------------------
(* C4 *)

\* C4 as stated: the sum raster is the sum of exactly seven grids, the
\* converted bands 1 to 7 (read either as the first seven bands, files band0
\* to band6, or as the files band1 to band7).
C4_SumOfExactlySevenBands ==
    pc = "mask_write" =>
        /\ Len(grids) = 7
        /\ \/ derived.sum =
                SumPx(fs.Reflectance, {BandTif(i) : i \in 0..6})
           \/ /\ BandTif(7) \in Names(fs.Reflectance)
              /\ derived.sum =
                    SumPx(fs.Reflectance, {BandTif(i) : i \in 1..7})

\* C4 amended: the sum raster is the sum of every file of the reflectance
\* folder whose file number is at most 7, that is band0 to band7: eight
\* grids for a scene of eight or more subdatasets, seven when it has exactly
\* seven; no file numbered above 7 is added.
C4_SumOfFilesNumberedUpTo7 ==
    pc = "mask_write" =>
        /\ Eligible(fs.Reflectance) =
                {BandTif(i) : i \in 0..(IF scene.nsub > 8 THEN 7
                                        ELSE scene.nsub - 1)}
        /\ Len(grids) = Cardinality(Eligible(fs.Reflectance))
        /\ Len(grids) \in {7, 8}
        /\ derived.sum = SumPx(fs.Reflectance, Eligible(fs.Reflectance))

\* C4 witness: the sum was taken over eight grids while the folder also
\* holds a band above 7
C4_Witness ==
    /\ pc = "mask_write"
    /\ Len(grids) = 8
    /\ BandTif(8) \in Names(fs.Reflectance)
    /\ derived.sum > 0

-----------------------------------------------------------------------------
(* C5, under SpecMask *)

\* C5: the mask is 1 exactly when sum > 2.7 and ratio > 1.5 and difference
\* < 0, and 0 otherwise; it only holds 0 or 1; where band 2 or band 7 is 0
\* the ratio is not-a-number, its comparison is false and the mask is 0.
C5_DecisionRule ==
    pc = "masked" =>
        LET b1 == grids[1].px
            b2 == grids[2].px
            b7 == grids[7].px
            total == SumPx([files |-> grids], DOMAIN grids)
        IN  /\ derived.ok
            /\ derived.cldmsk \in {0, 1}
            /\ derived.cldmsk = 1 <=>
                    /\ total > 2700
                    /\ b2 # 0 /\ b7 # 0 /\ 10 * b2 > 15 * b7
                    /\ b2 - b1 < 0
            /\ (b2 = 0 \/ b7 = 0) =>
                    derived.ratio.kind = "nan" /\ derived.cldmsk = 0

\* C5 witness: band 7 is 0 at a pixel whose sum and difference would satisfy
\* the rule, and the mask is 0 there
C5_Witness ==
    /\ pc = "masked"
    /\ grids[7].px = 0
    /\ grids[2].px > 0
    /\ grids[2].px < grids[1].px
    /\ derived.sum > 2700
    /\ derived.cldmsk = 0

-----------------------------------------------------------------------------
(* C6 *)

\* C6 as stated: the cloud mask is never georeferenced and never placed in
\* the Georeferenced folder.
C6_MaskNeverInOutput ==
    \A n \in Names(fs.Georeferenced) : fs.Georeferenced.files[n].kind # "mask"

\* C6 amended: when do_georef has completed, the Georeferenced folder holds
\* one georeferenced raster per file of the reflectance folder, the cloud
\* mask included (cloud_mask_georef.TIF, with ground control points); the
\* ungeoreferenced cloud_mask.TIF stays in the reflectance folder until the
\* cleanup removes that folder.
C6_MaskIsGeoreferenced ==
    (scene.entry = "run_ocm2" /\ "Georeferenced" \in completed) =>
        /\ Names(fs.Georeferenced) =
                {GeorefName(n) : n \in BandNames \cup {CloudMaskTif}}
        /\ \A n \in Names(fs.Georeferenced) : fs.Georeferenced.files[n].gcp
        /\ fs.Georeferenced.files[GeorefName(CloudMaskTif)].kind = "mask"
        /\ \A n \in BandNames :
                fs.Georeferenced.files[GeorefName(n)].kind \in {"toa", "export"}
        /\ pc = "cleanup" =>
                /\ CloudMaskTif \in Names(fs.Reflectance)
                /\ ~fs.Reflectance.files[CloudMaskTif].gcp
        /\ pc = "done" => ~fs.Reflectance.exists

\* C6 witness: a run has finished and its output folder holds the
\* georeferenced cloud mask
C6_Witness ==
    /\ pc = "done"
    /\ scene.entry = "run_ocm2"
    /\ GeorefName(CloudMaskTif) \in Names(fs.Georeferenced)
    /\ fs.Georeferenced.files[GeorefName(CloudMaskTif)].kind = "mask"

-----------------------------------------------------------------------------
(* C7 *)

\* C7 as stated: each folder is cleared immediately before the stage that
\* writes into it, so it is still as the run found it while any earlier
\* stage is running or has failed.
C7_FolderUntouchedDuringEarlierStages ==
    \A f \in FolderNames :
        (\E s \in {"Meta"} \cup {StageOrder[k] : k \in 1..Len(StageOrder)} :
            /\ Rank(s) < Rank(FolderStage(f))
            /\ Running(s) \/ failure.stage = s)
        => fs[f] = pre[f]

\* C7 amended: the GeoTiff folder is cleared and recreated as extraction
\* starts; the Reflectance and the Georeferenced folder are both cleared and
\* recreated after extraction has completed and before conversion starts.
\* So every folder is as the run found it until extraction starts, the
\* Reflectance and Georeferenced folders also while extraction runs or lies
\* failed, and the Georeferenced folder is already cleared, and empty, while
\* conversion and cloud masking run or lie failed.
C7_FoldersClearedAfterExtraction ==
    /\ "Extracted" \notin started => fs = pre
    /\ (pc \in {"export_loop", "makedirs"} \/ failure.stage = "Extracted") =>
            /\ fs.Reflectance = pre.Reflectance
            /\ fs.Georeferenced = pre.Georeferenced
    /\ (pc = "export_loop" /\ idx = 0) => fs.GeoTiff = Empty
    /\ pc = "do_ref" => fs.Reflectance = Empty /\ fs.Georeferenced = Empty
    /\ (\/ pc \in {"do_ref", "ref_loop", "do_cldmsk", "mask_write", "do_georef"}
        \/ failure.stage \in {"Converted", "CloudMasked"}) =>
            fs.Georeferenced = Empty

\* C7 witness: conversion is running and the Georeferenced folder, which held
\* earlier output when the run began, is already cleared
C7_Witness ==
    /\ pc = "ref_loop"
    /\ Running("Converted")
    /\ pre.Georeferenced = Stale("Georeferenced")
    /\ fs.Georeferenced = Empty

-----------------------------------------------------------------------------
(* C8 *)

\* C8: a second run of run_ocm2 on the same scene and folder leaves exactly
\* the folders and files, with the same contents, that the first run left.
C8_SecondRunLeavesSameFiles ==
    (run = 2 /\ pc \in {"done", "failed"}) => fs = snapshot

-----------------------------------------------------------------------------
(* C9 *)

\* C9: whenever the cloud-mask stage has run on fewer than seven converted
\* bands (six, or none; the folder it ran on is still there), it has ended
\* in an error and the reflectance folder holds no cloud_mask file.
C9_PartialBandSetFails ==
    ("CloudMasked" \in started
        /\ fs.Reflectance.exists
        /\ Cardinality(Eligible(fs.Reflectance)) < 7) =>
        /\ pc = "failed"
        /\ failure.stage = "CloudMasked"
        /\ failure.err \in {"UnboundLocalError", "IndexError", "AssertionError"}
        /\ CloudMaskTif \notin Names(fs.Reflectance)
        /\ "CloudMasked" \notin completed

\* C9 witness: the stage ran on six converted bands and failed
C9_Witness ==
    /\ "CloudMasked" \in started
    /\ Cardinality(Eligible(fs.Reflectance)) = 6
    /\ pc = "failed"
    /\ failure.err = "IndexError"

-----------------------------------------------------------------------------
(* C10 *)

\* C10: when the container cannot be opened, and when it opens but lists no
\* subdataset, ExportSubdatasets ends in an error: extraction never returns
\* normally and the Converted stage never starts.
C10_NoSubdatasetsIsFatal ==
    (~scene.opens \/ scene.nsub = 0) =>
        /\ "Extracted" \notin completed
        /\ "Converted" \notin started

=============================================================================
